---- MODULE Spec2Model ----
(***************************************************************************)
(* Model of mifid_tx_gen: the macro resolver (config.py), the field mapper *)
(* (mapper.py), the two XML builders (xml_builder_iso.py, xml_builder.py)  *)
(* and ReportGenerator.generate (generator.py).                            *)
(*                                                                         *)
(* Strings are sequences of tokens.  A token is either one of the          *)
(* punctuation characters the code inspects ("{", "}", ":", "/", "@") or a *)
(* run of other characters ("ENV", "Tx", "Qty", ...) that contains none of *)
(* them, so startswith/endswith/strip/split act on tokens exactly as the   *)
(* Python string methods act on the characters.                            *)
(***************************************************************************)
EXTENDS Naturals, Sequences, FiniteSets, TLC

VARIABLES
    pc,         \* position of the running operation
    cfg,        \* GeneratorConfig: namespaces, root attributes, fields, ...
    env,        \* os.environ: function from set keys to values
    clock,      \* value the clock reads return
    tree,       \* the element tree under construction
    container,  \* node id returned by build_root as record container (0: none)
    rowTx,      \* history: wrapper node created for each processed row
    err,        \* the exception that ended the run, or NoErr
    written,    \* TRUE once builder.write has produced the output file
    call        \* history: the last operation applied, its inputs and result

vars == <<pc, cfg, env, clock, tree, container, rowTx, err, written, call>>

(***************************************************************************)
(* Bounds of the model.                                                    *)
(***************************************************************************)
MaxStrLen == 2    \* length of the arbitrary strings fed to resolve_macros
MaxCalls == 2     \* resolve_macros / to_xml_fields / _ensure_path calls in a run
MaxRules == 2     \* mapping rules in a configuration
MaxPathCalls == 3 \* consecutive _ensure_path calls on one root
MaxRows == 2      \* rows of the input CSV
MaxFields == 3    \* fields of one append_tx call
MaxTx == 1        \* append_tx calls on one container

(***************************************************************************)
(* Python string helpers over token sequences.                             *)
(***************************************************************************)
Str(tok) == <<tok>>

StartsWith(s, p) == Len(s) >= Len(p) /\ SubSeq(s, 1, Len(p)) = p

EndsWith(s, p) ==
    Len(s) >= Len(p) /\ SubSeq(s, Len(s) - Len(p) + 1, Len(s)) = p

Contains(s, tok) == \E i \in 1..Len(s) : s[i] = tok

\* str.strip(chars): drop leading and trailing tokens that are in chars
RECURSIVE LStrip(_, _)
LStrip(s, chars) ==
    IF s # <<>> /\ Head(s) \in chars THEN LStrip(Tail(s), chars) ELSE s

RECURSIVE RStrip(_, _)
RStrip(s, chars) ==
    IF s # <<>> /\ s[Len(s)] \in chars
    THEN RStrip(SubSeq(s, 1, Len(s) - 1), chars)
    ELSE s

Strip(s, chars) == RStrip(LStrip(s, chars), chars)

\* str.split(sep): always at least one part; empty parts are kept
RECURSIVE Split(_, _)
Split(s, sep) ==
    IF s = <<>> THEN << <<>> >>
    ELSE LET rest == Split(Tail(s), sep)
         IN  IF Head(s) = sep
             THEN << <<>> >> \o rest
             ELSE << <<Head(s)>> \o Head(rest) >> \o Tail(rest)

\* str.split(sep, 1): the text before and after the first sep
RECURSIVE SplitOnce(_, _)
SplitOnce(s, sep) ==
    IF s = <<>> THEN << <<>>, <<>> >>
    ELSE IF Head(s) = sep THEN << <<>>, Tail(s) >>
    ELSE LET r == SplitOnce(Tail(s), sep)
         IN  << <<Head(s)>> \o r[1], r[2] >>

(***************************************************************************)
(* config.py: resolve_macros                                               *)
(***************************************************************************)
EnvPrefix == <<"{", "ENV", ":">>
NowMacro == <<"{", "NOW_ISO", "}">>

\* os.getenv(var, default)
GetEnv(e, var, default) == IF var \in DOMAIN e THEN e[var] ELSE default

\* datetime.now(timezone.utc).isoformat(timespec="seconds").replace("+00:00","Z")
NowIso(clk) == clk

IsEnvMacro(value) == StartsWith(value, EnvPrefix) /\ EndsWith(value, Str("}"))

\* the non-str early return is not modelled: every caller passes a str
resolve_macros(value, e, clk) ==
    IF IsEnvMacro(value)
    THEN LET parts == Split(Strip(value, {"{", "}"}), ":")
             var == parts[2]
             default == IF Len(parts) >= 3 THEN parts[3] ELSE <<>>
         IN  GetEnv(e, var, default)
    ELSE IF value = NowMacro THEN NowIso(clk)
    ELSE value

(***************************************************************************)
(* mapper.py: FieldMapper.to_xml_fields.  A record (TradeRecord.data) is a *)
(* function from the column names of the CSV header to values; a value is  *)
(* a string, or None where csv.DictReader pads a short row.                *)
(***************************************************************************)
NoneVal == Str("<None>")

\* mutant of to_xml_fields: only None is skipped, an empty string is emitted
MapRulesKeepEmpty(fields, data, e, clk) ==
    LET F[k \in 0..Len(fields)] ==
            IF k = 0 THEN <<>>
            ELSE LET rule == fields[k]
                     src == rule.from_field
                     val == IF src \in DOMAIN data THEN data[src]
                            ELSE resolve_macros(src, e, clk)
                 IN  IF val = NoneVal THEN F[k - 1]
                     ELSE Append(F[k - 1], <<rule.to_path, val>>)
    IN  F[Len(fields)]

\* mutant of to_xml_fields: a source that is no column is resolved only when
\* it is a macro, and skipped otherwise
MapRulesSkipLiteral(fields, data, e, clk) ==
    LET F[k \in 0..Len(fields)] ==
            IF k = 0 THEN <<>>
            ELSE LET rule == fields[k]
                     src == rule.from_field
                     val == IF src \in DOMAIN data THEN data[src]
                            ELSE IF IsEnvMacro(src) \/ src = NowMacro
                                 THEN resolve_macros(src, e, clk)
                                 ELSE NoneVal
                 IN  IF val = NoneVal \/ val = <<>> THEN F[k - 1]
                     ELSE Append(F[k - 1], <<rule.to_path, val>>)
    IN  F[Len(fields)]

\* pairs after the first k rules; F[k] is the list `pairs` after k iterations
to_xml_fields(fields, data, e, clk) ==
    LET F[k \in 0..Len(fields)] ==
            IF k = 0 THEN <<>>
            ELSE LET rule == fields[k]
                     src == rule.from_field
                     val == IF src \in DOMAIN data THEN data[src]
                            ELSE resolve_macros(src, e, clk)
                 IN  IF val = NoneVal \/ val = <<>> THEN F[k - 1]
                     ELSE Append(F[k - 1], <<rule.to_path, val>>)
    IN  F[Len(fields)]

\* "a/b/c" from its segments
RECURSIVE JoinPath(_)
JoinPath(segs) ==
    IF Len(segs) = 0 THEN <<>>
    ELSE IF Len(segs) = 1 THEN Head(segs)
    ELSE Head(segs) \o Str("/") \o JoinPath(Tail(segs))

(***************************************************************************)
(* The element tree (lxml.etree / xml.etree.ElementTree).  Node n is the   *)
(* n-th element created; tag[n] is its namespace ("" for none) and local   *)
(* name, kids[n] its children in document order, text[n] its text (NoneVal *)
(* while unset) and attrs[n] its attributes.                               *)
(***************************************************************************)
Tag(ns, ln) == [ns |-> ns, ln |-> ln]

EmptyTree == [tag |-> <<>>, kids |-> <<>>, text |-> <<>>, attrs |-> <<>>]

\* no exception raised
NoErr == [kind |-> "none", arg |-> <<>>]

InsertAt(seq, pos, x) ==
    SubSeq(seq, 1, pos - 1) \o <<x>> \o SubSeq(seq, pos, Len(seq))

\* Element(tag) placed as child number pos of parent (parent 0: a root)
AddNode(t, parent, tag, pos) ==
    LET id == Len(t.tag) + 1
        grown == Append(t.kids, <<>>)
    IN  [tag |-> Append(t.tag, tag),
         kids |-> IF parent = 0 THEN grown
                  ELSE [grown EXCEPT ![parent] = InsertAt(@, pos, id)],
         text |-> Append(t.text, NoneVal),
         attrs |-> Append(t.attrs, {})]

\* SubElement(parent, tag) / parent.append(child)
AppendNode(t, parent, tag) ==
    AddNode(t, parent, tag, IF parent = 0 THEN 1 ELSE Len(t.kids[parent]) + 1)

SetText(t, n, value) == [t EXCEPT !.text[n] = value]

\* elem.set(name, value); name is a qualified name: Tag(ns, local)
SetAttr(t, n, name, value) ==
    [t EXCEPT !.attrs[n] =
        {a \in @ : a.k # name} \cup {[k |-> name, v |-> value]}]

\* mutant of Find: the lookup drops the namespace, so it matches only
\* children that have none
FindUnqualified(t, cur, tag) ==
    LET hits == {i \in 1..Len(t.kids[cur]) :
                    t.tag[t.kids[cur][i]] = Tag("", tag.ln)}
    IN  IF hits = {} THEN 0
        ELSE t.kids[cur][CHOOSE i \in hits : \A j \in hits : i <= j]

\* elem.find(tag) for a plain tag: the first child with that tag, 0 for None
Find(t, cur, tag) ==
    LET hits == {i \in 1..Len(t.kids[cur]) : t.tag[t.kids[cur][i]] = tag}
    IN  IF hits = {} THEN 0
        ELSE t.kids[cur][CHOOSE i \in hits : \A j \in hits : i <= j]

Punct == {"{", "}", ":", "/", "@"}

\* lxml accepts a tag or attribute name only if it is an XML NCName
NameValid(name) == name # <<>> /\ \A i \in 1..Len(name) : name[i] \notin Punct

(***************************************************************************)
(* xml_builder_iso.py: IsoXmlBuilder._ensure_path and its helpers          *)
(***************************************************************************)
NS_AUTH == "urn:iso:std:iso:20022:tech:xsd:auth.016.001.01"
INNER_TX_ORDER == <<Str("TradDt"), Str("TradgCpcty"), Str("Qty"), Str("Pric"), Str("TradVn")>>

get_ns(t, n) == t.tag[n].ns

ChildNames(t, n) == {t.tag[t.kids[n][i]].ln : i \in 1..Len(t.kids[n])}

is_inner_tx(t, parent) ==
    /\ t.tag[parent].ln = Str("Tx")
    /\ get_ns(t, parent) = NS_AUTH
    /\ ChildNames(t, parent) \cap {Str("New"), Str("Cxl")} = {}

\* INNER_TX_ORDER.index(ln), 0 when ln is not in the list
RankOf(ln) ==
    IF \E k \in 1..Len(INNER_TX_ORDER) : INNER_TX_ORDER[k] = ln
    THEN CHOOSE k \in 1..Len(INNER_TX_ORDER) : INNER_TX_ORDER[k] = ln
    ELSE 0

\* the two nested loops: for each later name in rank order, the first child
\* with that name; the result is the child index to insert before
RECURSIVE FirstAfter(_, _, _)
FirstAfter(t, parent, k) ==
    IF k > Len(INNER_TX_ORDER) THEN Len(t.kids[parent]) + 1
    ELSE LET hits == {i \in 1..Len(t.kids[parent]) :
                         t.tag[t.kids[parent][i]].ln = INNER_TX_ORDER[k]}
         IN  IF hits # {} THEN CHOOSE i \in hits : \A j \in hits : i <= j
             ELSE FirstAfter(t, parent, k + 1)

\* mutant of InsertPos: the scan for a later sibling is left out and the
\* new child always goes to the end
InsertPosNoScan(t, parent, ln) == Len(t.kids[parent]) + 1

InsertPos(t, parent, ln) ==
    IF ~is_inner_tx(t, parent) THEN Len(t.kids[parent]) + 1
    ELSE IF RankOf(ln) = 0 THEN Len(t.kids[parent]) + 1
    ELSE FirstAfter(t, parent, RankOf(ln) + 1)

\* mutant of insert_child_in_order: parent.append(new_child) in every case
AppendChildUnordered(t, parent, tag) ==
    AddNode(t, parent, tag, Len(t.kids[parent]) + 1)

insert_child_in_order(t, parent, tag) ==
    AddNode(t, parent, tag, InsertPos(t, parent, tag.ln))

Raise(kind, arg) == [kind |-> kind, arg |-> arg]

\* [p for p in path.split("/") if p]
NonEmptyParts(path) == SelectSeq(Split(path, "/"), LAMBDA p : p # <<>>)

\* mutant of IsoWalk: the attribute branch falls through to the final text
\* assignment (set_text_at_end left on)
RECURSIVE IsoWalkTextOnAttr(_, _, _, _, _)
IsoWalkTextOnAttr(t, cur, parts, value, default_ns) ==
    IF parts = <<>>
    THEN [tree |-> IF value # NoneVal THEN SetText(t, cur, value) ELSE t,
          err |-> NoErr]
    ELSE
    LET part == Head(parts)
        ns == IF get_ns(t, cur) # "" THEN get_ns(t, cur) ELSE default_ns
    IN  IF Contains(part, "@")
        THEN LET elem_tag == SplitOnce(part, "@")[1]
                 attr_name == SplitOnce(part, "@")[2]
                 child == IF elem_tag = <<>> THEN cur
                          ELSE Find(t, cur, Tag(ns, elem_tag))
             IN  IF child = 0 /\ ~NameValid(elem_tag)
                 THEN [tree |-> t, err |-> Raise("InvalidTagName", elem_tag)]
                 ELSE
                 LET t1 == IF child = 0
                           THEN insert_child_in_order(t, cur, Tag(ns, elem_tag))
                           ELSE t
                     current == IF child = 0 THEN Len(t1.tag) ELSE child
                 IN  IF value = NoneVal THEN [tree |-> t1, err |-> NoErr]
                     ELSE IF ~NameValid(attr_name)
                     THEN [tree |-> t1,
                           err |-> Raise("InvalidAttributeName", attr_name)]
                     ELSE [tree |-> SetText(SetAttr(t1, current, Tag("", attr_name),
                                                    value), current, value),
                           err |-> NoErr]
        ELSE LET child == Find(t, cur, Tag(ns, part))
             IN  IF child # 0
                 THEN IsoWalkTextOnAttr(t, child, Tail(parts), value, default_ns)
                 ELSE IF ~NameValid(part)
                 THEN [tree |-> t, err |-> Raise("InvalidTagName", part)]
                 ELSE LET t1 == insert_child_in_order(t, cur, Tag(ns, part))
                      IN  IsoWalkTextOnAttr(t1, Len(t1.tag), Tail(parts), value,
                                  default_ns)

\* The loop over parts from cursor cur on.  LET.Element(qname(ns, tag)) and
\* current.set(attr_name, ...) raise ValueError for a name lxml rejects; the
\* nodes created up to then stay in the tree.
RECURSIVE IsoWalk(_, _, _, _, _)
IsoWalk(t, cur, parts, value, default_ns) ==
    IF parts = <<>>
    THEN [tree |-> IF value # NoneVal THEN SetText(t, cur, value) ELSE t,
          err |-> NoErr]
    ELSE
    LET part == Head(parts)
        ns == IF get_ns(t, cur) # "" THEN get_ns(t, cur) ELSE default_ns
    IN  IF Contains(part, "@")
        THEN LET elem_tag == SplitOnce(part, "@")[1]
                 attr_name == SplitOnce(part, "@")[2]
                 child == IF elem_tag = <<>> THEN cur
                          ELSE Find(t, cur, Tag(ns, elem_tag))
             IN  IF child = 0 /\ ~NameValid(elem_tag)
                 THEN [tree |-> t, err |-> Raise("InvalidTagName", elem_tag)]
                 ELSE
                 LET t1 == IF child = 0
                           THEN insert_child_in_order(t, cur, Tag(ns, elem_tag))
                           ELSE t
                     current == IF child = 0 THEN Len(t1.tag) ELSE child
                 IN  IF value = NoneVal THEN [tree |-> t1, err |-> NoErr]
                     ELSE IF ~NameValid(attr_name)
                     THEN [tree |-> t1,
                           err |-> Raise("InvalidAttributeName", attr_name)]
                     ELSE [tree |-> SetAttr(t1, current, Tag("", attr_name), value),
                           err |-> NoErr]
        ELSE LET child == Find(t, cur, Tag(ns, part))
             IN  IF child # 0
                 THEN IsoWalk(t, child, Tail(parts), value, default_ns)
                 ELSE IF ~NameValid(part)
                 THEN [tree |-> t, err |-> Raise("InvalidTagName", part)]
                 ELSE LET t1 == insert_child_in_order(t, cur, Tag(ns, part))
                      IN  IsoWalk(t1, Len(t1.tag), Tail(parts), value,
                                  default_ns)

IsoEnsurePath(t, root, path, value) ==
    IsoWalk(t, root, NonEmptyParts(path), value,
            IF get_ns(t, root) # "" THEN get_ns(t, root) ELSE NS_AUTH)

(***************************************************************************)
(* xml_builder.py: XmlBuilder._qname and XmlBuilder._ensure_path           *)
(***************************************************************************)
\* the tag, or the KeyError for a prefix that is no key or has no URI
BaseQname(namespaces, qname) ==
    IF Contains(qname, ":")
    THEN LET prefix == SplitOnce(qname, ":")[1]
             local == SplitOnce(qname, ":")[2]
         IN  IF prefix \in DOMAIN namespaces /\ namespaces[prefix] # ""
             THEN [tag |-> Tag(namespaces[prefix], local), err |-> NoErr]
             ELSE [tag |-> Tag("", qname), err |-> Raise("UnknownPrefix", prefix)]
    ELSE [tag |-> Tag("", qname), err |-> NoErr]

\* ElementTree's find hands a tag with an xpath character to ElementPath,
\* which raises KeyError for "@"
RECURSIVE BaseWalk(_, _, _, _, _)
BaseWalk(t, cur, parts, value, namespaces) ==
    LET part == Head(parts)
        q == BaseQname(namespaces, part)
    IN  IF q.err # NoErr THEN [tree |-> t, err |-> q.err]
        ELSE IF Contains(part, "@")
        THEN [tree |-> t, err |-> Raise("InvalidPath", part)]
        ELSE LET found == Find(t, cur, q.tag)
                 t1 == IF found = 0 THEN AppendNode(t, cur, q.tag) ELSE t
                 current == IF found = 0 THEN Len(t1.tag) ELSE found
             IN  IF Len(parts) = 1
                 THEN [tree |-> SetText(t1, current, value), err |-> NoErr]
                 ELSE BaseWalk(t1, current, Tail(parts), value, namespaces)

BaseEnsurePath(t, base, path, value, namespaces) ==
    BaseWalk(t, base, Split(path, "/"), value, namespaces)

(***************************************************************************)
(* xml_builder_iso.py: IsoXmlBuilder._uri, build_root, append_tx           *)
(***************************************************************************)
\* the URI, or the KeyError for a prefix that is no key or has no URI
IsoUri(namespaces, prefix) ==
    IF prefix \in DOMAIN namespaces /\ namespaces[prefix] # ""
    THEN [uri |-> namespaces[prefix], err |-> NoErr]
    ELSE [uri |-> "", err |-> Raise("UnknownPrefix", prefix)]

NeededRoles == <<Str("head003"), Str("head001"), Str("msg"), Str("xsi")>>

\* the first role of `needed` that is no key of the map, <<>> if none
FirstMissing(namespaces, needed) ==
    LET miss == {k \in 1..Len(needed) : needed[k] \notin DOMAIN namespaces}
    IN  IF miss = {} THEN <<>>
        ELSE needed[CHOOSE k \in miss : \A j \in miss : k <= j]

FirstWithoutUri(namespaces, needed) ==
    LET bad == {k \in 1..Len(needed) : IsoUri(namespaces, needed[k]).err # NoErr}
    IN  IF bad = {} THEN <<>>
        ELSE needed[CHOOSE k \in bad : \A j \in bad : k <= j]

SchemaLocationKey == <<"xsi", ":", "schemaLocation">>

\* (attributes or {}).get(key), <<>> standing for None
DictGet(pairs, key) ==
    IF \E i \in 1..Len(pairs) : pairs[i][1] = key
    THEN pairs[CHOOSE i \in 1..Len(pairs) : pairs[i][1] = key][2]
    ELSE <<>>

\* The elements build_root creates below the root, in creation order: the
\* parent's node number (the root is node 1), the namespace role, the local
\* name and the text ("" for none; FIRM/TO/UUID/NOW are filled in below).
SkeletonShape ==
    << <<1, "head003", "Hdr", "">>,
       <<2, "head001", "AppHdr", "">>,
       <<3, "head001", "Fr", "">>,
       <<4, "head001", "OrgId", "">>,
       <<5, "head001", "Id", "">>,
       <<6, "head001", "OrgId", "">>,
       <<7, "head001", "Othr", "">>,
       <<8, "head001", "Id", "FIRM">>,
       <<8, "head001", "SchmeNm", "">>,
       <<10, "head001", "Prtry", "LEI">>,
       <<3, "head001", "To", "">>,
       <<12, "head001", "OrgId", "">>,
       <<13, "head001", "Id", "">>,
       <<14, "head001", "OrgId", "">>,
       <<15, "head001", "Othr", "">>,
       <<16, "head001", "Id", "TO">>,
       <<16, "head001", "SchmeNm", "">>,
       <<18, "head001", "Prtry", "LEI">>,
       <<3, "head001", "BizMsgIdr", "UUID">>,
       <<3, "head001", "MsgDefIdr", "auth.016.001.01">>,
       <<3, "head001", "CreDt", "NOW">>,
       <<1, "head003", "Pyld", "">>,
       <<23, "msg", "Document", "">>,
       <<24, "msg", "FinInstrmRptgTxRpt", "">> >>

SkeletonText(code, e, clk, uuid) ==
    CASE code = "" -> NoneVal
      [] code = "FIRM" ->
            resolve_macros(<<"{", "ENV", ":", "FIRM_LEI", ":", "UNKNOWN", "}">>,
                           e, clk)
      [] code = "TO" ->
            resolve_macros(<<"{", "ENV", ":", "TO_LEI", ":", "UNKNOWN", "}">>,
                           e, clk)
      [] code = "UUID" -> <<"mf-", uuid>>
      [] code = "NOW" -> NowIso(clk)
      [] OTHER -> Str(code)

\* the namespace checks of build_root, with the roles it checks as argument
BuildRootChecked(c, e, clk, uuid, needed) ==
    LET ns == c.namespaces
        failed(er) == [tree |-> EmptyTree, container |-> 0, err |-> er]
    IN  IF FirstMissing(ns, needed) # <<>>
        THEN failed(Raise("MissingNamespace", FirstMissing(ns, needed)))
        ELSE IF FirstWithoutUri(ns, NeededRoles) # <<>>
        THEN failed(Raise("UnknownPrefix", FirstWithoutUri(ns, NeededRoles)))
        ELSE
        LET root == AppendNode(EmptyTree, 0, Tag(ns[Str("head003")], Str("BizData")))
            sl == DictGet(c.attributes, SchemaLocationKey)
            root1 == IF sl # <<>>
                     THEN SetAttr(root, 1,
                                  Tag(ns[Str("xsi")], Str("schemaLocation")),
                                  resolve_macros(sl, e, clk))
                     ELSE root
            \* node k + 1 is the k-th SubElement call; each call appends to
            \* its parent, so a parent's children are in creation order
            size == Len(SkeletonShape) + 1
            built ==
                [tag |-> [n \in 1..size |->
                            IF n = 1 THEN root1.tag[1]
                            ELSE Tag(ns[Str(SkeletonShape[n - 1][2])],
                                     Str(SkeletonShape[n - 1][3]))],
                 kids |-> [n \in 1..size |->
                            SelectSeq([m \in 1..size |-> m],
                                      LAMBDA m : m > 1 /\ SkeletonShape[m - 1][1] = n)],
                 text |-> [n \in 1..size |->
                            IF n = 1 THEN NoneVal
                            ELSE SkeletonText(SkeletonShape[n - 1][4], e, clk, uuid)],
                 attrs |-> [n \in 1..size |->
                            IF n = 1 THEN root1.attrs[1] ELSE {}]]
        IN  [tree |-> built, container |-> Len(built.tag), err |-> NoErr]

\* mutant of IsoBuildRoot: the presence check leaves out the last role
BuildRootUncheckedXsi(c, e, clk, uuid) ==
    BuildRootChecked(c, e, clk, uuid, SubSeq(NeededRoles, 1, Len(NeededRoles) - 1))

IsoBuildRoot(c, e, clk, uuid) == BuildRootChecked(c, e, clk, uuid, NeededRoles)

\* the loop of append_tx over the fields; it stops at the first exception
RECURSIVE IsoApplyFields(_, _, _)
IsoApplyFields(t, tx, fields) ==
    IF fields = <<>> THEN [tree |-> t, err |-> NoErr]
    ELSE LET r == IsoEnsurePath(t, tx, Head(fields)[1], Head(fields)[2])
         IN  IF r.err # NoErr THEN r
             ELSE IsoApplyFields(r.tree, tx, Tail(fields))

\* mutant of IsoAppendTx: the wrapper is found or created like any other
\* path segment, so a second row reuses the first row's wrapper
AppendTxReusingWrapper(t, cont, fields, namespaces) ==
    LET m == IsoUri(namespaces, Str("msg"))
    IN  IF m.err # NoErr THEN [tree |-> t, tx |-> 0, err |-> m.err]
        ELSE
        LET old == Find(t, cont, Tag(m.uri, Str("Tx")))
            t1 == IF old = 0 THEN AppendNode(t, cont, Tag(m.uri, Str("Tx"))) ELSE t
            tx == IF old = 0 THEN Len(t1.tag) ELSE old
            t2 == IF Find(t1, tx, Tag(m.uri, Str("New"))) = 0
                  THEN AppendNode(t1, tx, Tag(m.uri, Str("New")))
                  ELSE t1
            r == IsoApplyFields(t2, tx, fields)
        IN  [tree |-> r.tree, tx |-> tx, err |-> r.err]

\* mutant of IsoAppendTx: the marker is created without a namespace, so a
\* field path that starts with New does not find it and makes a second one
AppendTxUnqualifiedMarker(t, cont, fields, namespaces) ==
    LET m == IsoUri(namespaces, Str("msg"))
    IN  IF m.err # NoErr THEN [tree |-> t, tx |-> 0, err |-> m.err]
        ELSE
        LET t1 == AppendNode(t, cont, Tag(m.uri, Str("Tx")))
            tx == Len(t1.tag)
            t2 == AppendNode(t1, tx, Tag("", Str("New")))
            r == IsoApplyFields(t2, tx, fields)
        IN  [tree |-> r.tree, tx |-> tx, err |-> r.err]

IsoAppendTx(t, cont, fields, namespaces) ==
    LET m == IsoUri(namespaces, Str("msg"))
    IN  IF m.err # NoErr THEN [tree |-> t, tx |-> 0, err |-> m.err]
        ELSE
        LET t1 == AppendNode(t, cont, Tag(m.uri, Str("Tx")))
            tx == Len(t1.tag)
            t2 == IF Find(t1, tx, Tag(m.uri, Str("New"))) = 0
                  THEN AppendNode(t1, tx, Tag(m.uri, Str("New")))
                  ELSE t1
            r == IsoApplyFields(t2, tx, fields)
        IN  [tree |-> r.tree, tx |-> tx, err |-> r.err]

(***************************************************************************)
(* xml_builder.py: XmlBuilder.build_root, _append_child_object and         *)
(* append_record.  A static child of the root (RootSpec.children) is       *)
(* [qname, obj] with obj either [kind |-> "scalar", text] or               *)
(* [kind |-> "dict", items], items being such children in JSON order.      *)
(* _register_namespaces only feeds the serializer's prefix table.          *)
(***************************************************************************)
RECURSIVE BaseAppendChildObject(_, _, _, _, _, _, _)
RECURSIVE BaseAppendItems(_, _, _, _, _, _)

BaseAppendItems(t, el, items, namespaces, e, clk) ==
    IF items = <<>> THEN [tree |-> t, err |-> NoErr]
    ELSE LET k == Head(items).qname
             v == Head(items).obj
             r == IF v.kind = "dict"
                  THEN BaseAppendChildObject(t, el, k, v, namespaces, e, clk)
                  ELSE LET q == BaseQname(namespaces, k)
                           t1 == AppendNode(t, el, q.tag)
                       IN  IF q.err # NoErr THEN [tree |-> t, err |-> q.err]
                           ELSE [tree |-> SetText(t1, Len(t1.tag),
                                                  resolve_macros(v.text, e, clk)),
                                 err |-> NoErr]
         IN  IF r.err # NoErr THEN r
             ELSE BaseAppendItems(r.tree, el, Tail(items), namespaces, e, clk)

BaseAppendChildObject(t, parent, child_qname, obj, namespaces, e, clk) ==
    LET q == BaseQname(namespaces, child_qname)
        t1 == AppendNode(t, parent, q.tag)
        el == Len(t1.tag)
    IN  IF q.err # NoErr THEN [tree |-> t, err |-> q.err]
        ELSE IF obj.kind = "dict"
        THEN BaseAppendItems(t1, el, obj.items, namespaces, e, clk)
        ELSE [tree |-> SetText(t1, el, resolve_macros(obj.text, e, clk)),
              err |-> NoErr]

\* root.set(self._qname(k), resolve_macros(v)) for each attribute in order;
\* attributes is the JSON object as its <<key, value>> pairs in file order
RECURSIVE BaseSetAttributes(_, _, _, _, _)
BaseSetAttributes(t, attributes, namespaces, e, clk) ==
    IF attributes = <<>> THEN [tree |-> t, err |-> NoErr]
    ELSE LET q == BaseQname(namespaces, Head(attributes)[1])
         IN  IF q.err # NoErr THEN [tree |-> t, err |-> q.err]
             ELSE BaseSetAttributes(
                      SetAttr(t, 1, q.tag,
                              resolve_macros(Head(attributes)[2], e, clk)),
                      Tail(attributes), namespaces, e, clk)

\* the loop over the static children of the root
RECURSIVE BaseRootChildren(_, _, _, _, _)
BaseRootChildren(t, children, namespaces, e, clk) ==
    IF children = <<>> THEN [tree |-> t, err |-> NoErr]
    ELSE LET r == BaseAppendChildObject(t, 1, Head(children).qname,
                                        Head(children).obj, namespaces, e, clk)
         IN  IF r.err # NoErr THEN r
             ELSE BaseRootChildren(r.tree, Tail(children), namespaces, e, clk)

BaseBuildRoot(c, e, clk) ==
    LET q == BaseQname(c.namespaces, c.root_qname)
        none == [tree |-> EmptyTree, err |-> q.err]
    IN  IF q.err # NoErr THEN none
        ELSE LET root == AppendNode(EmptyTree, 0, q.tag)
                 a == BaseSetAttributes(root, c.attributes, c.namespaces,
                                        e, clk)
             IN  IF a.err # NoErr THEN [tree |-> EmptyTree, err |-> a.err]
                 ELSE LET r == BaseRootChildren(a.tree, c.children,
                                                c.namespaces, e, clk)
                      IN  IF r.err # NoErr
                          THEN [tree |-> EmptyTree, err |-> r.err]
                          ELSE r

RECURSIVE BaseApplyFields(_, _, _, _)
BaseApplyFields(t, rec_el, fields, namespaces) ==
    IF fields = <<>> THEN [tree |-> t, err |-> NoErr]
    ELSE LET r == BaseEnsurePath(t, rec_el, Head(fields)[1], Head(fields)[2],
                                 namespaces)
         IN  IF r.err # NoErr THEN r
             ELSE BaseApplyFields(r.tree, rec_el, Tail(fields), namespaces)

\* XmlBuilder defines neither ensure_container nor append_record_into, so
\* the first branch ends in AttributeError; <<>> stands for an unset option
BaseAppendRecord(t, parent, fields, c) ==
    IF c.record_container_qname # <<>> /\ c.record_element_qname # <<>>
    THEN [tree |-> t, err |-> Raise("AttributeError", Str("ensure_container"))]
    ELSE LET q == BaseQname(c.namespaces,
                            IF c.record_element # <<>> THEN c.record_element
                            ELSE Str("Record"))
         IN  IF q.err # NoErr THEN [tree |-> t, err |-> q.err]
             ELSE LET t1 == AppendNode(t, parent, q.tag)
                  IN  BaseApplyFields(t1, Len(t1.tag), fields, c.namespaces)

(***************************************************************************)
(* Inputs of the bounded checks.                                           *)
(***************************************************************************)
BoundedSeqs(S, n) == UNION {[1..k -> S] : k \in 0..n}

StrTokens == {"{", "}", ":", "ENV", "NOW_ISO", "A", "d"}
ShortStrings == BoundedSeqs(StrTokens, MaxStrLen)

EnvMacro(name) == EnvPrefix \o name \o Str("}")
EnvMacroD(name, d) == EnvPrefix \o name \o Str(":") \o d \o Str("}")

MacroNames == {Str("A"), Str("U")}          \* U is never set
Defaults == ShortStrings \cup {NowMacro \o <<":", "d">>}
MacroInputs ==
    ShortStrings \cup {NowMacro}
    \cup {EnvMacro(n) : n \in MacroNames}
    \cup {EnvMacroD(n, d) : n \in MacroNames, d \in Defaults}

EnvVals == {Str("v"), <<>>, NowMacro}
EnvsOver(keys) == UNION {[K -> EnvVals] : K \in SUBSET keys}
Clocks == {Str("2026-11-04T05:56:29Z")}


(***************************************************************************)
(* SpecMacro: resolve_macros applied to bounded inputs, and re-applied to  *)
(* its own result.                                                         *)
(***************************************************************************)
InitMacro ==
    /\ pc = "macro"
    /\ cfg = [namespaces |-> <<>>, fields |-> <<>>]
    /\ env \in EnvsOver({Str("A")})
    /\ clock \in Clocks
    /\ tree = EmptyTree
    /\ container = 0
    /\ rowTx = <<>>
    /\ err = NoErr
    /\ written = FALSE
    /\ call = [op |-> "none", arg |-> <<>>, res |-> <<>>, n |-> 0]

Resolve ==
    /\ pc = "macro"
    /\ call.n < MaxCalls
    /\ \E s \in MacroInputs :
          call' = [op |-> "resolve", arg |-> s,
                   res |-> resolve_macros(s, env, clock), n |-> call.n + 1]
    /\ UNCHANGED <<pc, cfg, env, clock, tree, container, rowTx, err, written>>

ResolveAgain ==
    /\ pc = "macro"
    /\ call.op \in {"resolve", "again"}
    /\ call.n < MaxCalls
    /\ call' = [op |-> "again", arg |-> call.res,
                res |-> resolve_macros(call.res, env, clock), n |-> call.n + 1]
    /\ UNCHANGED <<pc, cfg, env, clock, tree, container, rowTx, err, written>>

NextMacro == Resolve \/ ResolveAgain

SpecMacro == InitMacro /\ [][NextMacro]_vars

\* C9: {ENV:NAME:d} resolves to d when NAME is unset and to the environment's
\* value when it is set; {ENV:NAME} resolves to the empty string when unset.
MacroDefaulting ==
    call.op = "resolve" =>
        \A name \in MacroNames :
            /\ \A d \in Defaults :
                  call.arg = EnvMacroD(name, d) =>
                      call.res = IF name \in DOMAIN env THEN env[name] ELSE d
            /\ (call.arg = EnvMacro(name) /\ name \notin DOMAIN env) =>
                  call.res = <<>>

\* C10: a string that is none of the macro forms is returned unchanged, and
\* resolving a resolved string changes nothing.
IsMacroForm(s) ==
    \/ s = NowMacro
    \/ Len(s) >= 4 /\ SubSeq(s, 1, 3) = EnvPrefix /\ s[Len(s)] = "}"

MacroPassThroughIdempotent ==
    /\ (call.op \in {"resolve", "again"} /\ ~IsMacroForm(call.arg)) =>
           call.res = call.arg
    /\ call.op = "again" => call.res = call.arg

(***************************************************************************)
(* SpecMapper: to_xml_fields applied to bounded rule lists and records.    *)
(***************************************************************************)
Rule(from, to) == [from_field |-> from, to_path |-> to]

\* one rule per kind of source, each with its own target path
RulePool ==
    { Rule(Str("isin"), JoinPath(<<Str("New"), Str("Tx"), Str("Isin")>>)),
      Rule(Str("qty"), JoinPath(<<Str("New"), Str("Tx"), Str("Qty")>>)),
      Rule(EnvMacro(Str("A")), JoinPath(<<Str("New"), Str("Tx"), Str("TradVn")>>)),
      Rule(EnvMacroD(Str("U"), Str("NORE")), JoinPath(<<Str("New"), Str("Tx"), Str("TradgCpcty")>>)),
      Rule(NowMacro, JoinPath(<<Str("New"), Str("Tx"), Str("TradDt")>>)),
      Rule(Str("false"), JoinPath(<<Str("New"), Str("Tx"), Str("Pric")>>)),
      Rule(<<>>, JoinPath(<<Str("New"), Str("Tx"), Str("Buyr")>>)) }

Columns == {Str("isin"), Str("qty")}
CellVals == {Str("X"), <<>>, NoneVal}
Records == UNION {[K -> CellVals] : K \in SUBSET Columns}

InitMapper ==
    /\ pc = "mapper"
    /\ cfg \in {[namespaces |-> <<>>, fields |-> fl] :
                    fl \in BoundedSeqs(RulePool, MaxRules)}
    /\ env \in EnvsOver({Str("A")})
    /\ clock \in Clocks
    /\ tree = EmptyTree
    /\ container = 0
    /\ rowTx = <<>>
    /\ err = NoErr
    /\ written = FALSE
    /\ call = [op |-> "none", arg |-> <<>>, res |-> <<>>, n |-> 0]

MapRecord ==
    /\ pc = "mapper"
    /\ call.n < MaxCalls
    /\ \E data \in Records :
          call' = [op |-> "map", arg |-> data,
                   res |-> to_xml_fields(cfg.fields, data, env, clock),
                   n |-> call.n + 1]
    /\ UNCHANGED <<pc, cfg, env, clock, tree, container, rowTx, err, written>>

NextMapper == MapRecord

SpecMapper == InitMapper /\ [][NextMapper]_vars

\* the value the claims call "resolved": the column's value when the source
\* is a column of the record, else the source put through the macro resolver
ResolvedValue(rule, data) ==
    IF rule.from_field \in DOMAIN data THEN data[rule.from_field]
    ELSE resolve_macros(rule.from_field, env, clock)

HasValue(rule, data) == ResolvedValue(rule, data) \notin {<<>>, NoneVal}

\* C5: the emitted pairs are exactly the rules whose resolved value is
\* neither absent nor empty, in rule declaration order, each with its path
\* and value; a rule resolving to '' or None emits nothing.
SkipEmpty ==
    call.op = "map" =>
        LET rules == cfg.fields
            keep == {i \in 1..Len(rules) : HasValue(rules[i], call.arg)}
            pos(i) == Cardinality({j \in keep : j <= i})
        IN  /\ Len(call.res) = Cardinality(keep)
            /\ \A i \in keep :
                  call.res[pos(i)] =
                      <<rules[i].to_path, ResolvedValue(rules[i], call.arg)>>
            /\ \A k \in 1..Len(call.res) : call.res[k][2] # <<>>

\* a column holding '' is skipped and the rule after it is emitted
SkipEmptyWitness ==
    /\ call.op = "map"
    /\ Len(cfg.fields) = 2
    /\ cfg.fields[1].from_field \in DOMAIN call.arg
    /\ call.arg[cfg.fields[1].from_field] = <<>>
    /\ HasValue(cfg.fields[2], call.arg)
    /\ call.res = <<<<cfg.fields[2].to_path,
                      ResolvedValue(cfg.fields[2], call.arg)>>>>

IsMissingField(rule, data) ==
    /\ rule.from_field \notin DOMAIN data
    /\ ~IsMacroForm(rule.from_field)

\* C6 as claimed: a rule whose source is neither a column of the record nor
\* a macro form emits no pair.
MissingFieldSkipped ==
    call.op = "map" =>
        \A i \in 1..Len(cfg.fields) :
            IsMissingField(cfg.fields[i], call.arg) =>
                \A k \in 1..Len(call.res) :
                    call.res[k][1] # cfg.fields[i].to_path

\* C6 as amended: such a rule emits its source text as a literal value, and
\* emits nothing only when the source is the empty string; the rules after
\* it are still mapped.
MissingFieldLiteral ==
    call.op = "map" =>
        \A i \in 1..Len(cfg.fields) :
            IsMissingField(cfg.fields[i], call.arg) =>
                LET rule == cfg.fields[i]
                    hits == {k \in 1..Len(call.res) :
                                call.res[k][1] = rule.to_path}
                IN  /\ rule.from_field # <<>> =>
                          /\ hits # {}
                          /\ \A k \in hits :
                                call.res[k] = <<rule.to_path, rule.from_field>>
                    /\ rule.from_field = <<>> => hits = {}
                    /\ \A j \in (i + 1)..Len(cfg.fields) :
                          HasValue(cfg.fields[j], call.arg) =>
                              \E k \in 1..Len(call.res) :
                                  call.res[k][1] = cfg.fields[j].to_path

\* the record has no isin column: the rule emits the text "isin", and the
\* rule after it is mapped
MissingFieldWitness ==
    /\ call.op = "map"
    /\ Len(cfg.fields) = 2
    /\ cfg.fields[1].from_field = Str("isin")
    /\ cfg.fields[2].from_field = Str("qty")
    /\ DOMAIN call.arg = {Str("qty")}
    /\ call.res[1] = <<cfg.fields[1].to_path, Str("isin")>>
    /\ Len(call.res) = 2

(***************************************************************************)
(* SpecPath: _ensure_path of either builder called repeatedly on one root  *)
(* with paths and values from a pool.                                      *)
(***************************************************************************)
NS_OTHER == "urn:example:other"

PathPool ==
    { Str("Qty"),
      JoinPath(<<Str("New"), Str("Tx"), Str("Qty")>>),
      JoinPath(<<Str("New"), Str("Tx"), Str("TradDt")>>),
      JoinPath(<<Str("New"), Str("Tx")>>) \o Str("/"),
      <<"msg", ":", "Id">>,
      <<"Qty", "@", "Ccy">>,
      JoinPath(<<Str("New"), Str("Tx"), <<"Amt", "@", "Ccy">>>>),
      <<"Amt", "@", "Ccy", "/", "Qty">> }

Values == {Str("1"), Str("EUR")}

NoCall == [op |-> "none", path |-> <<>>, err |-> NoErr]

InitPath ==
    /\ pc \in {"iso", "base"}
    /\ cfg \in {[namespaces |-> ns, fields |-> <<>>] :
                   ns \in {<<>>, [k \in {Str("msg")} |-> NS_AUTH]}}
    /\ env = <<>>
    /\ clock \in Clocks
    /\ tree \in {AppendNode(EmptyTree, 0, tg) :
                    tg \in IF pc = "iso"
                           THEN {Tag(NS_AUTH, Str("Tx")), Tag(NS_OTHER, Str("Tx"))}
                           ELSE {Tag("", Str("Record"))}}
    /\ container = 0
    /\ rowTx = <<>>
    /\ err = NoErr
    /\ written = FALSE
    /\ call = [op |-> "none", path |-> <<>>, value |-> <<>>,
               before |-> EmptyTree, prev |-> NoCall, n |-> 0]

Ensured(r, path, value) ==
    /\ tree' = r.tree
    /\ err' = r.err
    /\ call' = [op |-> "ensure", path |-> path, value |-> value,
                before |-> tree,
                prev |-> [op |-> call.op, path |-> call.path, err |-> err],
                n |-> call.n + 1]
    /\ UNCHANGED <<pc, cfg, env, clock, container, rowTx, written>>

IsoEnsure ==
    /\ pc = "iso"
    /\ call.n < MaxPathCalls
    /\ \E path \in PathPool, value \in Values :
          Ensured(IsoEnsurePath(tree, 1, path, value), path, value)

BaseEnsure ==
    /\ pc = "base"
    /\ call.n < MaxPathCalls
    /\ \E path \in PathPool, value \in Values :
          Ensured(BaseEnsurePath(tree, 1, path, value, cfg.namespaces),
                  path, value)

NextPath == IsoEnsure \/ BaseEnsure

SpecPath == InitPath /\ [][NextPath]_vars

\* the segments the builder at hand walks, and the qualified tag it looks
\* up for a segment at cursor cur
PartsOf(path) == IF pc = "iso" THEN NonEmptyParts(path) ELSE Split(path, "/")

StepTag(t, cur, part) ==
    IF pc = "iso"
    THEN Tag(IF t.tag[cur].ns # "" THEN t.tag[cur].ns
             ELSE IF t.tag[1].ns # "" THEN t.tag[1].ns ELSE NS_AUTH, part)
    ELSE BaseQname(cfg.namespaces, part).tag

Matches(t, cur, part) ==
    {i \in 1..Len(t.kids[cur]) : t.tag[t.kids[cur][i]] = StepTag(t, cur, part)}

\* the node the segments lead to from cur, 0 if a segment has no node
RECURSIVE Locate(_, _, _)
Locate(t, cur, parts) ==
    IF parts = <<>> THEN cur
    ELSE IF Matches(t, cur, Head(parts)) = {} THEN 0
    ELSE Locate(t, t.kids[cur][CHOOSE i \in Matches(t, cur, Head(parts)) : TRUE],
                Tail(parts))

\* every segment has exactly one node at its position
RECURSIVE OneNodePerSegment(_, _, _)
OneNodePerSegment(t, cur, parts) ==
    \/ parts = <<>>
    \/ /\ Cardinality(Matches(t, cur, Head(parts))) = 1
       /\ OneNodePerSegment(
              t, t.kids[cur][CHOOSE i \in Matches(t, cur, Head(parts)) : TRUE],
              Tail(parts))

\* how many leading segments already have a node
RECURSIVE Present(_, _, _)
Present(t, cur, parts) ==
    IF parts = <<>> \/ Matches(t, cur, Head(parts)) = {} THEN 0
    ELSE 1 + Present(t, t.kids[cur][CHOOSE i \in Matches(t, cur, Head(parts)) : TRUE],
                     Tail(parts))

\* C2: a second call with the same element-only path creates nothing: the
\* tree keeps its shape, each segment has exactly one node at its position,
\* and the terminal node's text is the second value.
EnsurePathIdempotent ==
    (/\ call.op = "ensure"
     /\ call.prev.op = "ensure"
     /\ call.prev.path = call.path
     /\ call.prev.err = NoErr
     /\ ~Contains(call.path, "@"))
    => LET parts == PartsOf(call.path)
           term == Locate(tree, 1, parts)
       IN  /\ err = NoErr
           /\ tree.tag = call.before.tag
           /\ tree.kids = call.before.kids
           /\ tree.attrs = call.before.attrs
           /\ OneNodePerSegment(tree, 1, parts)
           /\ term # 0
           /\ tree.text[term] = call.value
           /\ \A n \in 1..Len(tree.tag) :
                 n # term => tree.text[n] = call.before.text[n]

\* both builders, on a tree that other paths have already grown, with a
\* second value that differs from the first
EnsurePathIdempotentWitness ==
    /\ call.op = "ensure"
    /\ call.n = 3
    /\ call.prev.op = "ensure"
    /\ call.prev.path = call.path
    /\ call.prev.err = NoErr
    /\ Len(NonEmptyParts(call.path)) = 3
    /\ ~Contains(call.path, "@")
    /\ Len(call.before.tag) > 4
    /\ call.before.text[Locate(tree, 1, PartsOf(call.path))] # call.value

\* the element segments up to the attribute segment, and the attribute name
AttrIndex(parts) ==
    CHOOSE k \in 1..Len(parts) :
        Contains(parts[k], "@") /\ \A j \in 1..(k - 1) : ~Contains(parts[j], "@")

ElemParts(parts) ==
    [j \in 1..AttrIndex(parts) |->
        IF j < AttrIndex(parts) THEN parts[j] ELSE SplitOnce(parts[j], "@")[1]]

AttrName(parts) == SplitOnce(parts[AttrIndex(parts)], "@")[2]

IsAttrPath(path) ==
    /\ Contains(path, "@")
    /\ \A j \in 1..Len(ElemParts(NonEmptyParts(path))) :
          NameValid(ElemParts(NonEmptyParts(path))[j])
    /\ NameValid(AttrName(NonEmptyParts(path)))

AttrTerminalHolds ==
    LET parts == NonEmptyParts(call.path)
        elems == ElemParts(parts)
        old == Locate(call.before, 1, elems)
        tgt == Locate(tree, 1, elems)
    IN  /\ err = NoErr
        /\ tgt # 0
        /\ OneNodePerSegment(tree, 1, elems)
        /\ old # 0 => tgt = old
        /\ Len(tree.tag) =
              Len(call.before.tag) + Len(elems) - Present(call.before, 1, elems)
        /\ {a \in tree.attrs[tgt] : a.k.ln = AttrName(parts)} =
              {[k |-> Tag("", AttrName(parts)), v |-> call.value]}
        /\ tree.text[tgt] = IF old # 0 THEN call.before.text[old] ELSE NoneVal
        /\ \A n \in 1..Len(call.before.tag) :
              tree.text[n] = call.before.text[n]

\* C3 as claimed: with either builder, a path ending in Element@attr finds
\* or creates Element, sets attr on it, writes no text and creates no node
\* for a later segment.
AttributeTerminal ==
    (call.op = "ensure" /\ IsAttrPath(call.path)) => AttrTerminalHolds

\* C3 as amended: the same, for the enhanced builder only.
AttributeTerminalIso ==
    (call.op = "ensure" /\ pc = "iso" /\ IsAttrPath(call.path))
    => AttrTerminalHolds

\* an attribute set on an element that already existed and had text
AttributeTerminalWitness ==
    /\ call.op = "ensure"
    /\ pc = "iso"
    /\ call.path = <<"Qty", "@", "Ccy">>
    /\ Locate(call.before, 1, <<Str("Qty")>>) # 0
    /\ tree.text[Locate(tree, 1, <<Str("Qty")>>)] # NoneVal
    /\ tree.attrs[Locate(tree, 1, <<Str("Qty")>>)] # {}

(***************************************************************************)
(* Spec: ReportGenerator.generate, one step for the skeleton, one per CSV  *)
(* row (map the row, append the record) and one for the write.             *)
(***************************************************************************)
NS_HEAD003 == "urn:iso:std:iso:20022:tech:xsd:head.003.001.01"
NS_HEAD001 == "urn:iso:std:iso:20022:tech:xsd:head.001.001.01"
NS_XSI == "http://www.w3.org/2001/XMLSchema-instance"

UrisOf(role) ==
    CASE role = Str("head003") -> {"", NS_HEAD003}
      [] role = Str("head001") -> {"", NS_HEAD001}
      [] role = Str("msg") -> {"", NS_AUTH}
      [] role = Str("xsi") -> {"", NS_XSI}

RoleSet == {NeededRoles[k] : k \in 1..Len(NeededRoles)}

\* every map that gives some of the four roles a URI or an empty string
NsMaps ==
    UNION {{f \in [K -> {"", NS_HEAD003, NS_HEAD001, NS_AUTH, NS_XSI}] :
               \A k \in K : f[k] \in UrisOf(k)} : K \in SUBSET RoleSet}

FullNs(msg) ==
    [k \in RoleSet |->
        CASE k = Str("head003") -> NS_HEAD003
          [] k = Str("head001") -> NS_HEAD001
          [] k = Str("msg") -> msg
          [] k = Str("xsi") -> NS_XSI]

GenRulePool ==
    { Rule(Str("isin"), JoinPath(<<Str("New"), Str("Tx"), Str("Isin")>>)),
      Rule(Str("qty"), JoinPath(<<Str("New"), Str("Tx"), Str("Qty")>>)),
      Rule(Str("EUR"), JoinPath(<<Str("New"), Str("Tx"), Str("Pric"), <<"Amt", "@", "Ccy">>>>)),
      Rule(Str("isin"), <<"zz", ":", "Foo">>),
      Rule(Str("qty"), <<"msg", ":", "Id">>) }

AttributeMaps ==
    {<<>>, <<<<SchemaLocationKey, <<"{", "ENV", ":", "A", ":", "loc", "}">>>>>>}

Children ==
    { <<>>,
      <<[qname |-> Str("Hdr"), obj |-> [kind |-> "scalar", text |-> NowMacro]]>>,
      <<[qname |-> <<"msg", ":", "Hdr">>,
         obj |-> [kind |-> "dict",
                  items |-> <<[qname |-> Str("Id"),
                               obj |-> [kind |-> "scalar", text |-> Str("X")]]>>]]>> }

Config(lxml, ns, attrs, fl, rq, ch, re, rcq, req) ==
    [has_lxml |-> lxml, namespaces |-> ns, attributes |-> attrs, fields |-> fl,
     root_qname |-> rq, children |-> ch, record_element |-> re,
     record_container_qname |-> rcq, record_element_qname |-> req]

\* the enhanced builder ignores root.qname, root.children and the record_*
\* options; the baseline builder is run with and without the msg prefix
IsoConfigs ==
    {Config(TRUE, ns, at, fl, Str("BizData"), <<>>, <<>>, <<>>, <<>>) :
        ns \in NsMaps, at \in AttributeMaps,
        fl \in BoundedSeqs(GenRulePool, MaxRules)}

BaseConfigs ==
    {Config(FALSE, ns, <<>>, fl, rq, ch, re, rc[1], rc[2]) :
        ns \in {<<>>, FullNs(NS_AUTH)},
        fl \in BoundedSeqs(GenRulePool, MaxRules),
        rq \in {Str("Report"), <<"msg", ":", "Document">>},
        ch \in Children,
        re \in {<<>>, Str("Trade")},
        rc \in {<<<<>>, <<>>>>,
                <<<<"msg", ":", "FinInstrmRptgTxRpt">>, <<"msg", ":", "Tx">>>>}}

Rows == [Columns -> {Str("X"), <<>>}]
Uuids == {"0f8fad5bd9cb469fa16570867728950e"}
GenEnvs == {[k \in {Str("A")} |-> Str("v")]}

Init ==
    /\ pc = "start"
    /\ cfg \in IsoConfigs \cup BaseConfigs
    /\ env \in GenEnvs
    /\ clock \in Clocks
    /\ tree = EmptyTree
    /\ container = 0
    /\ rowTx = <<>>
    /\ err = NoErr
    /\ written = FALSE
    /\ call = [op |-> "none", arg |-> <<>>, res |-> <<>>, n |-> 0]

\* root, container = builder.build_root()
GenBuildRootIso ==
    /\ pc = "start"
    /\ cfg.has_lxml
    /\ \E uuid \in Uuids :
          LET r == IsoBuildRoot(cfg, env, clock, uuid)
          IN  /\ tree' = r.tree
              /\ container' = r.container
              /\ err' = r.err
              /\ pc' = IF r.err = NoErr THEN "rows" ELSE "failed"
    /\ call' = [op |-> "build_root", arg |-> <<>>, res |-> <<>>, n |-> 0]
    /\ UNCHANGED <<cfg, env, clock, rowTx, written>>

\* one iteration of the row loop: to_xml_fields, then append_tx
GenRowIso ==
    /\ pc = "rows"
    /\ cfg.has_lxml
    /\ call.n < MaxRows
    /\ \E row \in Rows :
          LET fields == to_xml_fields(cfg.fields, row, env, clock)
              r == IsoAppendTx(tree, container, fields, cfg.namespaces)
              ok == r.err = NoErr
          IN  /\ tree' = r.tree
              /\ err' = r.err
              /\ pc' = IF ok THEN "rows" ELSE "failed"
              /\ rowTx' = IF ok THEN Append(rowTx, r.tx) ELSE rowTx
              /\ call' = [op |-> "row", arg |-> row, res |-> fields,
                          n |-> IF ok THEN call.n + 1 ELSE call.n]
    /\ UNCHANGED <<cfg, env, clock, container, written>>

\* the rows are exhausted: builder.write(root, out_path)
GenWriteIso ==
    /\ pc = "rows"
    /\ cfg.has_lxml
    /\ written' = TRUE
    /\ pc' = "done"
    /\ UNCHANGED <<cfg, env, clock, tree, container, rowTx, err, call>>

\* root = b.build_root()
GenBuildRootBase ==
    /\ pc = "start"
    /\ ~cfg.has_lxml
    /\ LET r == BaseBuildRoot(cfg, env, clock)
       IN  /\ tree' = r.tree
           /\ err' = r.err
           /\ pc' = IF r.err = NoErr THEN "rows" ELSE "failed"
    /\ call' = [op |-> "build_root", arg |-> <<>>, res |-> <<>>, n |-> 0]
    /\ UNCHANGED <<cfg, env, clock, container, rowTx, written>>

\* one iteration of the row loop: to_xml_fields, then append_record
GenRowBase ==
    /\ pc = "rows"
    /\ ~cfg.has_lxml
    /\ call.n < MaxRows
    /\ \E row \in Rows :
          LET fields == to_xml_fields(cfg.fields, row, env, clock)
              r == BaseAppendRecord(tree, 1, fields, cfg)
              ok == r.err = NoErr
          IN  /\ tree' = r.tree
              /\ err' = r.err
              /\ pc' = IF ok THEN "rows" ELSE "failed"
              /\ call' = [op |-> "row", arg |-> row, res |-> fields,
                          n |-> IF ok THEN call.n + 1 ELSE call.n]
    /\ UNCHANGED <<cfg, env, clock, container, rowTx, written>>

\* b.write(root, out_path, pretty=True)
GenWriteBase ==
    /\ pc = "rows"
    /\ ~cfg.has_lxml
    /\ written' = TRUE
    /\ pc' = "done"
    /\ UNCHANGED <<cfg, env, clock, tree, container, rowTx, err, call>>

Next ==
    \/ GenBuildRootIso
    \/ GenRowIso
    \/ GenWriteIso
    \/ GenBuildRootBase
    \/ GenRowBase
    \/ GenWriteBase

Spec == Init /\ [][Next]_vars

\* the children of n, their children, and so on
RECURSIVE Descendants(_, _)
Descendants(t, n) ==
    LET ks == {t.kids[n][i] : i \in 1..Len(t.kids[n])}
    IN  ks \cup UNION {Descendants(t, k) : k \in ks}

SkeletonNames ==
    {Str("Hdr"), Str("AppHdr"), Str("Fr"), Str("To"), Str("BizMsgIdr"),
     Str("MsgDefIdr"), Str("CreDt"), Str("Pyld"), Str("Document"),
     Str("FinInstrmRptgTxRpt")}

\* C7: with the enhanced builder, once n rows are processed the container
\* has exactly n children, the i-th being the Tx wrapper created for the
\* i-th row, all of them different nodes, and outside the records each
\* skeleton element still occurs exactly once.
OneWrapperPerRow ==
    (cfg.has_lxml /\ pc \in {"rows", "done"}) =>
        /\ Len(tree.kids[container]) = call.n
        /\ tree.kids[container] = rowTx
        /\ \A i \in 1..Len(rowTx) :
              tree.tag[rowTx[i]] = Tag(cfg.namespaces[Str("msg")], Str("Tx"))
        /\ \A i, j \in 1..Len(rowTx) : i < j => rowTx[i] < rowTx[j]
        /\ \A name \in SkeletonNames :
              Cardinality({n \in (1..Len(tree.tag)) \ Descendants(tree, container) :
                              tree.tag[n].ln = name}) = 1

\* two rows written out, the last of them with no mapped field at all
OneWrapperPerRowWitness ==
    /\ cfg.has_lxml
    /\ pc = "done"
    /\ written
    /\ call.n = 2
    /\ call.res = <<>>
    /\ Len(tree.kids[rowTx[1]]) = 1
    /\ Len(tree.kids[tree.kids[rowTx[1]][1]]) = 1
    /\ Len(rowTx) = 2

AbsentRoles == {r \in RoleSet : r \notin DOMAIN cfg.namespaces}

UnknownPrefixes ==
    {SplitOnce(part, ":")[1] :
        part \in {q \in UNION {{Split(cfg.fields[i].to_path, "/")[k] :
                                  k \in 1..Len(Split(cfg.fields[i].to_path, "/"))} :
                               i \in 1..Len(cfg.fields)} :
                     /\ Contains(q, ":")
                     /\ SplitOnce(q, ":")[1] \notin DOMAIN cfg.namespaces}}

\* C4: when a rule's target path has a segment whose prefix is no key of the
\* namespace map, a run that got past the skeleton never reaches the write
\* and, once ended, has failed with UnknownPrefix naming that prefix.
UnknownPrefixAborts ==
    \A prefix \in UnknownPrefixes :
        (pc \in {"done", "failed"} /\ tree # EmptyTree) =>
            /\ pc = "failed"
            /\ ~written
            /\ err = Raise("UnknownPrefix", prefix)

\* the field list holds plain element paths only: no attribute segment and
\* no prefixed segment
PlainElementPaths(fields) ==
    \A i \in 1..Len(fields) :
        ~Contains(fields[i][1], "@") /\ ~Contains(fields[i][1], ":")

\* C11: with the baseline builder, whatever the record options of the
\* configuration, a row whose fields are plain element paths is appended
\* without error and the root has one more record element: the root's
\* children are the configured static children followed by one record per
\* row so far.
BaselineContract ==
    (~cfg.has_lxml /\ call.op = "row" /\ PlainElementPaths(call.res)) =>
        /\ err = NoErr
        /\ pc # "failed"
        /\ call.n >= 1
        /\ Len(tree.kids[1]) = Len(cfg.children) + call.n

\* the qualified tag the claim gives the node of one path segment: the
\* cursor's namespace for a plain name, the mapped namespace for prefix:local
ClaimedTag(t, cur, part, namespaces) ==
    LET name == IF Contains(part, "@") THEN SplitOnce(part, "@")[1] ELSE part
    IN  IF Contains(name, ":")
        THEN Tag(namespaces[SplitOnce(name, ":")[1]], SplitOnce(name, ":")[2])
        ELSE Tag(get_ns(t, cur), name)

\* every segment of parts, walked from cur, has a node with its claimed tag
RECURSIVE HasClaimedNodes(_, _, _, _)
HasClaimedNodes(t, cur, parts, namespaces) ==
    IF parts = <<>> THEN TRUE
    ELSE LET n == Find(t, cur, ClaimedTag(t, cur, Head(parts), namespaces))
         IN  /\ n # 0
             /\ Contains(Head(parts), "@")
                \/ HasClaimedNodes(t, n, Tail(parts), namespaces)

\* the prefixes of the segments of a path
PrefixesOf(path) ==
    {SplitOnce(NonEmptyParts(path)[k], ":")[1] :
        k \in {i \in 1..Len(NonEmptyParts(path)) :
                  Contains(NonEmptyParts(path)[i], ":")}}

\* C14: with the enhanced builder, after a row all of whose field paths use
\* only prefixes the namespace map knows, the row was appended without error
\* and under its wrapper every segment of every field has a node in the
\* cursor's namespace (plain segment) or in the namespace mapped to its
\* prefix (prefix:local).
SegmentNamespaces ==
    ( /\ cfg.has_lxml
      /\ call.op = "row"
      /\ \A j \in 1..Len(call.res) :
            \A q \in PrefixesOf(call.res[j][1]) :
                q \in DOMAIN cfg.namespaces /\ cfg.namespaces[q] # "" ) =>
        /\ err = NoErr
        /\ \A j \in 1..Len(call.res) :
              HasClaimedNodes(tree, tree.kids[container][Len(tree.kids[container])],
                              NonEmptyParts(call.res[j][1]), cfg.namespaces)

(***************************************************************************)
(* SpecTx: append_tx called on the container of a freshly built skeleton.  *)
(***************************************************************************)
RankedPath(k) == JoinPath(<<Str("New"), Str("Tx"), INNER_TX_ORDER[k]>>)

\* every order of every choice of up to MaxFields ranked names
TxFieldLists ==
    {[i \in DOMAIN f |-> <<RankedPath(f[i]), Str("1")>>] :
        f \in {g \in BoundedSeqs(1..Len(INNER_TX_ORDER), MaxFields) :
                  \A i, j \in DOMAIN g : i # j => g[i] # g[j]}}

TxStart(c) == IsoBuildRoot(c, <<>>, CHOOSE clk \in Clocks : TRUE,
                           CHOOSE u \in Uuids : TRUE)

InitTx ==
    /\ pc = "tx"
    /\ cfg \in {Config(TRUE, FullNs(msg), <<>>, <<>>, Str("BizData"), <<>>,
                       <<>>, <<>>, <<>>) : msg \in {NS_AUTH, NS_OTHER}}
    /\ env = <<>>
    /\ clock \in Clocks
    /\ tree = TxStart(cfg).tree
    /\ container = TxStart(cfg).container
    /\ rowTx = <<>>
    /\ err = NoErr
    /\ written = FALSE
    /\ call = [op |-> "none", arg |-> <<>>, res |-> <<>>, n |-> 0]

AppendTx ==
    /\ pc = "tx"
    /\ call.n < MaxTx
    /\ \E fields \in TxFieldLists :
          LET r == IsoAppendTx(tree, container, fields, cfg.namespaces)
          IN  /\ tree' = r.tree
              /\ err' = r.err
              /\ rowTx' = Append(rowTx, r.tx)
              /\ call' = [op |-> "append_tx", arg |-> fields, res |-> <<>>,
                          n |-> call.n + 1]
    /\ UNCHANGED <<pc, cfg, env, clock, container, written>>

NextTx == AppendTx

SpecTx == InitTx /\ [][NextTx]_vars

\* the inner Tx of the last wrapper: wrapper/New/Tx, 0 if there is none
LastInnerTx ==
    LET msg == cfg.namespaces[Str("msg")]
        new == Find(tree, rowTx[Len(rowTx)], Tag(msg, Str("New")))
    IN  IF new = 0 THEN 0 ELSE Find(tree, new, Tag(msg, Str("Tx")))

\* C1: whatever the order in which fields for distinct ranked names arrive,
\* the children of the record's inner Tx are those names in rank order.
OrderingInvariant ==
    (call.op = "append_tx" /\ call.arg # <<>>) =>
        /\ err = NoErr
        /\ LastInnerTx # 0
        /\ [i \in 1..Len(tree.kids[LastInnerTx]) |->
               tree.tag[tree.kids[LastInnerTx][i]].ln]
           = SelectSeq(INNER_TX_ORDER,
                       LAMBDA name : \E i \in 1..Len(call.arg) :
                           call.arg[i][1] = JoinPath(<<Str("New"), Str("Tx"), name>>))

(***************************************************************************)
(* SpecAppend: append_tx called on the container of a freshly built        *)
(* skeleton (msg namespace as shipped) with arbitrary field lists: ranked  *)
(* and unranked names, the marker names New and Cxl, a Tx directly under   *)
(* the wrapper, an attribute segment, repeated paths and the empty list.   *)
(***************************************************************************)
MaxAppends == 2
MaxApplied == 3

FieldPathPool ==
    { JoinPath(<<Str("New"), Str("Tx"), Str("TradDt")>>),
      JoinPath(<<Str("New"), Str("Tx"), Str("Qty")>>),
      JoinPath(<<Str("New"), Str("Tx"), Str("Isin")>>),
      JoinPath(<<Str("New"), Str("Tx"), Str("Cxl")>>),
      JoinPath(<<Str("New"), Str("Tx"), <<"Pric", "@", "Ccy">>>>),
      Str("New"),
      Str("Qty"),
      JoinPath(<<Str("Tx"), Str("Qty")>>) }

\* the field lists of at most k pairs
FieldLists(k) ==
    UNION {[1..j -> {<<path, Str("1")>> : path \in FieldPathPool}] : j \in 0..k}

InitAppend ==
    /\ pc = "append"
    /\ cfg = Config(TRUE, FullNs(NS_AUTH), <<>>, <<>>, Str("BizData"), <<>>,
                    <<>>, <<>>, <<>>)
    /\ env = <<>>
    /\ clock \in Clocks
    /\ tree = TxStart(cfg).tree
    /\ container = TxStart(cfg).container
    /\ rowTx = <<>>
    /\ err = NoErr
    /\ written = FALSE
    /\ call = [op |-> "none", arg |-> <<>>, res |-> <<>>, n |-> 0, used |-> 0]

\* builder.append_tx(container, fields)
AppendFields ==
    /\ pc = "append"
    /\ call.n < MaxAppends
    /\ \E fields \in FieldLists(MaxApplied - call.used) :
          \E r \in {IsoAppendTx(tree, container, fields, cfg.namespaces)} :
              /\ tree' = r.tree
              /\ err' = r.err
              /\ rowTx' = Append(rowTx, r.tx)
              /\ call' = [op |-> "append_tx", arg |-> fields, res |-> <<>>,
                          n |-> call.n + 1, used |-> call.used + Len(fields)]
    /\ UNCHANGED <<pc, cfg, env, clock, container, written>>

NextAppend == AppendFields

SpecAppend == InitAppend /\ [][NextAppend]_vars

\* the direct children of node n whose local name is ln, in document order
ChildrenNamed(t, n, ln) ==
    SelectSeq(t.kids[n], LAMBDA k : t.tag[k].ln = ln)

\* C12: after append_tx, every record wrapper has exactly one direct child
\* with local name New, that child is the wrapper's first child, it is the
\* node created right after the wrapper (before any field was applied), and
\* every field path that starts with New has its next segment under it.
SingleMarker ==
    \A i \in 1..Len(rowTx) :
        LET tx == rowTx[i]
        IN  /\ Len(ChildrenNamed(tree, tx, Str("New"))) = 1
            /\ tree.kids[tx][1] = tx + 1
            /\ tree.tag[tx + 1] = Tag(cfg.namespaces[Str("msg")], Str("New"))
            /\ (i = Len(rowTx) /\ err = NoErr) =>
                  \A j \in 1..Len(call.arg) :
                      LET parts == NonEmptyParts(call.arg[j][1])
                      IN  (Len(parts) >= 2 /\ parts[1] = Str("New")) =>
                             Find(tree, tx + 1,
                                  Tag(get_ns(tree, tx + 1),
                                      IF Contains(parts[2], "@")
                                      THEN SplitOnce(parts[2], "@")[1]
                                      ELSE parts[2])) # 0

\* a wrapper that got a field directly under it and the same path below
\* the marker twice: the marker and the nodes below it exist once
SingleMarkerWitness ==
    /\ call.op = "append_tx"
    /\ err = NoErr
    /\ call.arg = << <<Str("Qty"), Str("1")>>,
                     <<JoinPath(<<Str("New"), Str("Tx"), Str("Qty")>>), Str("1")>>,
                     <<JoinPath(<<Str("New"), Str("Tx"), Str("Qty")>>), Str("1")>> >>
    /\ Len(tree.kids[rowTx[Len(rowTx)]]) = 2
    /\ Len(tree.kids[rowTx[Len(rowTx)] + 1]) = 1
    /\ Len(tree.kids[tree.kids[rowTx[Len(rowTx)] + 1][1]]) = 1

\* The specified insertion rule: under a cursor in the inner-record context
\* a ranked child goes immediately before the first existing child, in
\* document order, whose rank is strictly greater; otherwise at the end.
RulePos(t, parent, ln) ==
    LET n == Len(t.kids[parent])
        greater == {i \in 1..n : RankOf(t.tag[t.kids[parent][i]].ln) > RankOf(ln)}
    IN  IF ~is_inner_tx(t, parent) \/ RankOf(ln) = 0 \/ greater = {} THEN n + 1
        ELSE CHOOSE i \in greater : \A j \in greater : i <= j

\* local names a path segment may ask for
SegmentNames ==
    {INNER_TX_ORDER[k] : k \in 1..Len(INNER_TX_ORDER)}
        \cup {Str("Isin"), Str("New"), Str("Cxl"), Str("Tx")}

\* C13: in every reachable tree, for every cursor ensure-path can stand on
\* (the nodes below the record container) and every name it would have to
\* create under it (no child with that qualified tag yet),
\* insert_child_in_order puts the new child where the specified rule puts
\* it; under a cursor outside the inner-record context that is the end.
InsertionMatchesRule ==
    \A parent \in Descendants(tree, container) :
        \A ln \in SegmentNames :
            Find(tree, parent, Tag(get_ns(tree, parent), ln)) = 0 =>
                /\ InsertPos(tree, parent, ln) = RulePos(tree, parent, ln)
                /\ ~is_inner_tx(tree, parent) =>
                      InsertPos(tree, parent, ln) = Len(tree.kids[parent]) + 1

\* the inner Tx got an unranked child, then Pric (through an attribute
\* segment), then Qty, which went between the two; TradDt would now go
\* before Qty and after the unranked one
InsertionMatchesRuleWitness ==
    /\ call.op = "append_tx"
    /\ err = NoErr
    /\ call.arg = << <<JoinPath(<<Str("New"), Str("Tx"), Str("Isin")>>), Str("1")>>,
                     <<JoinPath(<<Str("New"), Str("Tx"), <<"Pric", "@", "Ccy">>>>), Str("1")>>,
                     <<JoinPath(<<Str("New"), Str("Tx"), Str("Qty")>>), Str("1")>> >>
    /\ LastInnerTx # 0
    /\ is_inner_tx(tree, LastInnerTx)
    /\ [i \in 1..Len(tree.kids[LastInnerTx]) |-> tree.tag[tree.kids[LastInnerTx][i]].ln]
       = <<Str("Isin"), Str("Qty"), Str("Pric")>>
    /\ InsertPos(tree, LastInnerTx, Str("TradDt")) = 2

\* the ranks of the ranked children of node n, in document order
ChildRanks(t, n) ==
    SelectSeq([i \in 1..Len(t.kids[n]) |-> RankOf(t.tag[t.kids[n][i]].ln)],
              LAMBDA r : r # 0)

\* C15: after any sequence of append_tx calls, every node that satisfies
\* is_inner_tx has its ranked children in strictly increasing rank order,
\* hence at most one child per ranked name.
SortedInnerTx ==
    \A n \in 1..Len(tree.tag) :
        is_inner_tx(tree, n) =>
            \A i, j \in 1..Len(ChildRanks(tree, n)) :
                i < j => ChildRanks(tree, n)[i] < ChildRanks(tree, n)[j]

\* three ranked names supplied in the reverse of their rank order, the
\* attribute segment among them, end up in rank order under the inner Tx
SortedInnerTxWitness ==
    /\ call.op = "append_tx"
    /\ err = NoErr
    /\ call.arg = << <<JoinPath(<<Str("New"), Str("Tx"), <<"Pric", "@", "Ccy">>>>), Str("1")>>,
                     <<JoinPath(<<Str("New"), Str("Tx"), Str("Qty")>>), Str("1")>>,
                     <<JoinPath(<<Str("New"), Str("Tx"), Str("TradDt")>>), Str("1")>> >>
    /\ LastInnerTx # 0
    /\ is_inner_tx(tree, LastInnerTx)
    /\ ChildRanks(tree, LastInnerTx) = <<1, 3, 4>>

====
